---- MODULE Spec2Model ----
(***************************************************************************)
(* gitfucktime: commit selection, work-hours timestamp synthesis and the   *)
(* rewrite / revert transaction, as implemented by the two entry points    *)
(*   src/gitfucktime.py            (stand-alone script, "script")          *)
(*   src/gitfucktime/main.py       (package main,       "package")         *)
(* and their helpers in src/gitfucktime/core.py and utils.py.              *)
(*                                                                         *)
(* Time.  A datetime is the number of seconds since 00:00 of a Monday      *)
(* (model day 0), so weekday() is (day number) % 7 with Monday = 0 as in   *)
(* Python.  A timedelta is a number of seconds.                            *)
(*                                                                         *)
(* Repository.  The history reachable from HEAD is linear; it is the       *)
(* sequence of the commits' timestamps, root first.  Everything else of a  *)
(* commit (tree, message, author) is never changed by the program, so a    *)
(* commit id is determined by the timestamps of the commit and of its      *)
(* ancestors: two ids are equal exactly when these sequences are equal.    *)
(* Within one run a commit is named by its position in the history.        *)
(***************************************************************************)
EXTENDS Integers, Sequences, FiniteSets, TLC

VARIABLES
    entry,                  \* entry point of the current run
    pc,                     \* position of the current run
    args,                   \* parsed command line
    commits,                \* selected commits (positions), oldest first
    revision_range_start,   \* anchor commit (position), None when unknown
    start_date, end_date,   \* the date window
    now,                    \* the wall clock
    random_days,            \* sampler local
    target_date,            \* sampler local
    timestamps,             \* instants drawn so far
    mapping,                \* commit -> formatted new date
    filter_file,            \* .git_date_filter.sh exists
    history,                \* commits reachable from HEAD (their timestamps)
    origin,                 \* origin/master
    reflog,                 \* HEAD's reflog, newest first
    branches,               \* gitfucktime-backup-* branches
    stash,                  \* the stash stack, newest first
    dirty,                  \* uncommitted changes of tracked files
    oracle_calls,           \* git filter-branch invocations of this run
    target_ref,             \* revert: the reflog position to reset to
    exit_code,              \* exit status of the run, Running while it runs
    message,                \* the last report printed
    runs,                   \* runs started so far
    run_start,              \* the repository when the current run started
    prev,                   \* the run before the current one
    answers                 \* the confirmations asked in the current run, with the replies

vars == << entry, pc, args, commits, revision_range_start, start_date, end_date,
           now, random_days, target_date, timestamps, mapping, filter_file,
           history, origin, reflog, branches, stash, dirty, oracle_calls,
           target_ref, exit_code, message, runs, run_start, prev, answers >>

(***************************************************************************)
(* Bounds of the model.                                                    *)
(***************************************************************************)
MaxSpan == 2        \* a window ends at most this many days after its start day
MaxCommits == 2     \* commits in the initial history
MaxN == 2           \* largest N of --last N and --first N
MaxRuns == 3        \* runs in a row on one repository
MaxReflog == 6      \* the menu offers no further revert at this many reflog lines

(***************************************************************************)
(* Python values.                                                          *)
(***************************************************************************)
None == -1
Running == -1

(***************************************************************************)
(* datetime arithmetic.                                                    *)
(***************************************************************************)
DaySeconds == 86400
HourSeconds == 3600
MinuteSeconds == 60

\* timedelta.days
days(delta) == delta \div DaySeconds

\* datetime + timedelta(days=n)
plus_days(date, n) == date + n * DaySeconds

\* datetime.weekday(), Monday = 0
weekday(date) == (date \div DaySeconds) % 7

\* datetime.replace(hour=, minute=, second=): the date is kept
replace(date, hour, minute, second) ==
    (date \div DaySeconds) * DaySeconds
        + hour * HourSeconds + minute * MinuteSeconds + second

\* datetime.hour
hour_of(date) == (date % DaySeconds) \div HourSeconds

(***************************************************************************)
(* utils.py (and the same functions of the stand-alone script).            *)
(***************************************************************************)
is_work_day_sixdays(date) == weekday(date) < 6

is_work_day(date) == weekday(date) < 5

RECURSIVE first_work_day_from(_)
first_work_day_from(next_day) ==
    IF is_work_day(next_day) THEN next_day
    ELSE first_work_day_from(plus_days(next_day, 1))

\* get_next_work_day: the time of day of `date` is kept
next_calendar_day(date) == plus_days(date, 1)

get_next_work_day(date) == first_work_day_from(plus_days(date, 1))

total_days_minus(start, end) == days(end - start) - 1

\* generate_work_hours_timestamp: total_days
total_days(start, end) == days(end - start) + 1

\* generate_work_hours_timestamp: the range of random.randint(0, total_days)
day_offsets(start, end) == 0 .. total_days(start, end)

\* random.randint(9, 16), random.randint(0, 59), random.randint(0, 59)
hour_range == 9 .. 16
minute_range == 0 .. 59
second_range == 0 .. 59

(***************************************************************************)
(* Sequences.                                                              *)
(***************************************************************************)
Min(a, b) == IF a <= b THEN a ELSE b
Max(a, b) == IF a >= b THEN a ELSE b

\* list[:n]
take(list, n) == SubSeq(list, 1, Min(n, Len(list)))

\* list.reverse()
reversed(list) == [i \in 1 .. Len(list) |-> list[Len(list) + 1 - i]]

RECURSIVE insert_sorted(_, _)
insert_sorted(list, x) ==
    IF list = << >> THEN << x >>
    ELSE IF x < list[1] THEN << x >> \o list
    ELSE << list[1] >> \o insert_sorted(Tail(list), x)

RECURSIVE sort_from(_, _)
sort_from(done, rest) ==
    IF rest = << >> THEN done
    ELSE sort_from(insert_sorted(done, rest[1]), Tail(rest))

unsorted(list) == list

\* list.sort()
sorted(list) == sort_from(<< >>, list)

RECURSIVE common_prefix(_, _)
common_prefix(a, b) ==
    IF a = << >> \/ b = << >> \/ a[1] # b[1] THEN 0
    ELSE 1 + common_prefix(Tail(a), Tail(b))

(***************************************************************************)
(* strftime(TIME_FORMAT) and the way git reads the date back.  The text    *)
(* "%Y-%m-%dT%H:%M:%S" is the tuple of its fields; the date field is the   *)
(* day number.                                                             *)
(***************************************************************************)
strftime(date) ==
    << date \div DaySeconds,
       (date % DaySeconds) \div HourSeconds,
       (date % HourSeconds) \div MinuteSeconds,
       date % MinuteSeconds >>

git_date(text) ==
    text[1] * DaySeconds + text[2] * HourSeconds + text[3] * MinuteSeconds + text[4]

(***************************************************************************)
(* The repository, as git answers the program's questions.                 *)
(***************************************************************************)
\* git rev-list HEAD: newest first
rev_list_head == [i \in 1 .. Len(history) |-> Len(history) + 1 - i]

\* git merge-base origin/master HEAD, as a position (0: no common commit)
merge_base == common_prefix(origin.head, history)

\* git rev-list origin/master..HEAD: newest first
rev_list_unpushed ==
    [i \in 1 .. (Len(history) - merge_base) |-> Len(history) + 1 - i]

get_commits_without_fallback(count, unpushed_only, reverse_order) ==
    LET result == IF unpushed_only
                  THEN IF origin.resolvable THEN rev_list_unpushed ELSE << >>
                  ELSE rev_list_head
        counted == IF count # 0 THEN take(result, count) ELSE result
    IN  IF reverse_order THEN reversed(counted) ELSE counted

\* get_commits(count, unpushed_only, reverse_order); count 0 is "no count"
get_commits(count, unpushed_only, reverse_order) ==
    LET result == IF unpushed_only /\ origin.resolvable THEN rev_list_unpushed
                  ELSE rev_list_head
        counted == IF count # 0 THEN take(result, count) ELSE result
    IN  IF reverse_order THEN reversed(counted) ELSE counted

\* get_commit_date(commit)
get_commit_date(commit) == history[commit]

\* git rev-parse HEAD~n: None when there is no such commit
head_tilde(n) == IF n < Len(history) THEN Len(history) - n ELSE None

\* git rev-parse <commit>~1
parent_of(commit) == IF commit > 1 THEN commit - 1 ELSE None

\* the commits of the revision range given to git filter-branch
range_valid(last) == last = 0 \/ head_tilde(last) # None

range_commits_short(last) ==
    IF last # 0 THEN (Len(history) - last + 2) .. Len(history)
    ELSE 1 .. Len(history)

range_commits(last) ==
    IF last # 0 THEN (Len(history) - last + 1) .. Len(history)
    ELSE 1 .. Len(history)

\* the history git filter-branch writes: the env-filter sets the dates of
\* the commits of the range that the case statement names
filtered(range, map) ==
    [c \in 1 .. Len(history) |->
        IF c \in range /\ c \in DOMAIN map THEN git_date(map[c]) ELSE history[c]]

(***************************************************************************)
(* Inputs: the repositories, clocks and command lines the runs start from. *)
(***************************************************************************)
midnight(day) == day * DaySeconds

\* the commits of the test repositories (tests/test_integration.py):
\* Saturday 03:00, Sunday 23:00, Sunday 03:00, Monday 23:00, ...
fixture_date(i) ==
    IF (i - 1) % 2 = 0
    THEN replace(midnight(5 + ((i - 1) \div 2)), 3, 0, 0)
    ELSE replace(midnight(6 + ((i - 1) \div 2)), 23, 0, 0)

fixture_history(n) == [i \in 1 .. n |-> fixture_date(i)]

\* the reflog of a repository made by n commits: each line holds the value
\* of HEAD before (`old`, << >> for the root commit) and after (`head`)
fixture_reflog(n) ==
    [i \in 1 .. n |-> [msg |-> "commit", old |-> fixture_history(n - i),
                       head |-> fixture_history(n + 1 - i)]]

\* origin/master: missing, or some pushed prefix of the history, with
\* `behind` commits of its own on top
DivergenceThreshold == 50

origins(n) ==
    { [resolvable |-> FALSE, head |-> << >>, behind |-> 0] } \cup
    { [resolvable |-> TRUE, head |-> fixture_history(p), behind |-> b] :
        p \in 1 .. n, b \in {0, DivergenceThreshold + 1} }

\* --start / --end dates: a Sunday and the Monday after it
date_args == { None, midnight(13), midnight(14) }

\* datetime.now(): noon of that Sunday, or long after
first_clock == replace(midnight(13), 12, 0, 0)
clock == { first_clock, midnight(700) }

no_args ==
    [revert |-> FALSE, no_backup |-> FALSE, unpushed |-> FALSE,
     last |-> 0, first |-> 0, start |-> None, end |-> None]

\* the rewrite runs of both entry points; the script has no --no-backup
rewrite_args(e) ==
    { [no_args EXCEPT !.unpushed = u, !.last = l, !.first = f,
                      !.start = s, !.end = t, !.no_backup = nb] :
        u \in BOOLEAN, l \in 0 .. MaxN, f \in 0 .. MaxN,
        s \in date_args, t \in date_args,
        nb \in IF e = "package" THEN BOOLEAN ELSE {FALSE} }

\* --revert [--no-backup]
revert_args == { [no_args EXCEPT !.revert = TRUE, !.no_backup = nb] : nb \in BOOLEAN }

no_run == [op |-> "none", head |-> << >>, dirty |-> FALSE, message |-> ""]

snapshot ==
    [head |-> history, dirty |-> dirty, branches |-> branches, stash |-> stash]

\* `kept`: the lines of the reflog that have not expired
InitRepository(n, o, d, st, kept) ==
    /\ entry = "none"
    /\ pc = "idle"
    /\ args = no_args
    /\ commits = << >>
    /\ revision_range_start = None
    /\ start_date = None
    /\ end_date = None
    /\ now = first_clock
    /\ random_days = None
    /\ target_date = None
    /\ timestamps = << >>
    /\ mapping = << >>
    /\ filter_file = FALSE
    /\ history = fixture_history(n)
    /\ origin = o
    /\ reflog = take(fixture_reflog(n), kept)
    /\ branches = {}
    /\ stash = st
    /\ dirty = d
    /\ oracle_calls = 0
    /\ target_ref = None
    /\ exit_code = Running
    /\ message = ""
    /\ runs = 0
    /\ run_start = [head |-> fixture_history(n), dirty |-> d,
                    branches |-> {}, stash |-> st]
    /\ prev = no_run
    /\ answers = {}

Init ==
    \E n \in 1 .. MaxCommits : \E o \in origins(n) : \E d \in BOOLEAN :
        InitRepository(n, o, d, << >>, n)

(***************************************************************************)
(* A run starts: argparse has read the command line.                       *)
(***************************************************************************)
finished_run ==
    [op |-> IF runs = 0 THEN "none"
            ELSE IF args.revert THEN "revert"
            ELSE IF message = "Success" THEN "rewrite"
            ELSE "other",
     head |-> run_start.head,
     dirty |-> run_start.dirty,
     message |-> message]

\* `not any(vars(args).values())`: no flag given, or only counts of 0
no_arguments(a) ==
    /\ ~a.revert /\ ~a.no_backup /\ ~a.unpushed
    /\ a.last = 0 /\ a.first = 0
    /\ a.start = None /\ a.end = None

Start(e, a) ==
    /\ pc \in {"idle", "done"}
    /\ runs < MaxRuns
    /\ entry' = e
    /\ args' = a
    /\ pc' = IF a.revert THEN "revert"
             ELSE IF e = "package" /\ no_arguments(a) THEN "menu"
             ELSE "select"
    /\ commits' = << >>
    /\ revision_range_start' = None
    /\ start_date' = None
    /\ end_date' = None
    /\ random_days' = None
    /\ target_date' = None
    /\ timestamps' = << >>
    /\ mapping' = << >>
    /\ oracle_calls' = 0
    /\ target_ref' = None
    /\ exit_code' = Running
    /\ message' = ""
    /\ runs' = runs + 1
    /\ run_start' = snapshot
    /\ prev' = finished_run
    /\ answers' = {}
    /\ UNCHANGED << now, filter_file, history, origin, reflog, branches, stash, dirty >>

\* the run ends: main returns (status 0) or dies of an exception (status 1)
Return(status, report) ==
    /\ pc' = "done"
    /\ exit_code' = status
    /\ message' = report

(***************************************************************************)
(* "Identify commits to process": the selection and its anchor.            *)
(***************************************************************************)
first_selection(n, unpushed_only) ==
    LET all_commits == get_commits(0, unpushed_only, TRUE)
    IN  IF Len(all_commits) >= n THEN SubSeq(all_commits, 1, n) ELSE all_commits

selected_commits(a) ==
    IF a.last # 0 THEN get_commits(a.last, a.unpushed, TRUE)
    ELSE IF a.first # 0 THEN first_selection(a.first, a.unpushed)
    ELSE get_commits(0, a.unpushed, TRUE)

selected_anchor(a) ==
    IF a.last # 0 THEN head_tilde(a.last)
    ELSE IF a.first # 0
    THEN IF first_selection(a.first, a.unpushed) = << >> THEN None
         ELSE parent_of(first_selection(a.first, a.unpushed)[1])
    ELSE IF a.unpushed /\ origin.resolvable /\ merge_base > 0 THEN merge_base
    ELSE None

\* get_commits: the warning printed when origin/master..HEAD cannot be listed
selection_warning(a) ==
    IF a.unpushed /\ ~origin.resolvable
    THEN "Could not find origin/master, using all commits on HEAD"
    ELSE ""

SelectCommits ==
    /\ pc = "select"
    /\ commits' = selected_commits(args)
    /\ revision_range_start' = selected_anchor(args)
    /\ IF Len(selected_commits(args)) = 0
       THEN Return(0, "No commits to process")
       ELSE /\ pc' = "dates"
            /\ message' = selection_warning(args)
            /\ UNCHANGED exit_code
    /\ UNCHANGED << entry, args, start_date, end_date, now, random_days, target_date,
                    timestamps, mapping, filter_file, history, origin, reflog,
                    branches, stash, dirty, oracle_calls, target_ref, runs,
                    run_start, prev, answers >>

(***************************************************************************)
(* "Determine dates": the window, given or derived.  `typed` is what the   *)
(* user answers when asked for a start date (None: nothing usable).        *)
(***************************************************************************)
end_of_day(date) == replace(date, 23, 59, 59)

auto_end(start, n) == end_of_day(plus_days(start, Max(1, n - 1)))

resolved_start(typed) ==
    IF args.start # None THEN args.start
    ELSE IF revision_range_start # None
    THEN get_next_work_day(get_commit_date(revision_range_start))
    ELSE typed

resolved_end(start) ==
    IF args.end # None THEN end_of_day(args.end)
    ELSE auto_end(start, Len(commits))

conflicting_selection_allowed(a) == FALSE

\* "Cannot use both --last and --first flags."
conflicting_selection(a) == a.last # 0 /\ a.first # 0

ResolveDates(typed) ==
    /\ pc = "dates"
    /\ (args.start # None \/ revision_range_start # None) => typed = None
    /\ LET start == resolved_start(typed)
           end == resolved_end(start)
       IN  IF start = None
           THEN /\ Return(0, "No start date")
                /\ end_date' = IF args.end # None THEN end_of_day(args.end)
                               ELSE end_date
                /\ UNCHANGED start_date
           ELSE /\ start_date' = start
                /\ end_date' = end
                /\ IF start > end
                   THEN Return(0, "Start date must be before end date")
                   ELSE IF conflicting_selection(args)
                   THEN Return(0, "Cannot use both --last and --first")
                   ELSE /\ pc' = IF entry = "package" THEN "future" ELSE "generate"
                        /\ UNCHANGED << exit_code, message >>
    /\ UNCHANGED << entry, args, commits, revision_range_start, now, random_days,
                    target_date, timestamps, mapping, filter_file, history, origin,
                    reflog, branches, stash, dirty, oracle_calls, target_ref, runs,
                    run_start, prev, answers >>

(***************************************************************************)
(* Package main only: the checks against the clock, the anchor and the     *)
(* remote.  `answer` is the user's reply to confirm_action.                *)
(***************************************************************************)
future_needs_confirm ==
    args.end # None \/ (~args.unpushed /\ args.last = 0 /\ args.first = 0)

\* confirm_action(message): the question and the user's reply
asked(question, answer) == [question |-> question, answer |-> answer]

proceeds_always(answer) == TRUE

\* `if not confirm_action(...): print("Operation cancelled."); return`
proceeds(answer) == answer

FutureCheck(t, answer) ==
    /\ pc = "future"
    /\ t >= now
    /\ now' = t
    /\ IF end_date > t
       THEN IF future_needs_confirm
            THEN /\ UNCHANGED end_date
                 /\ answers' = answers \cup { asked("future", answer) }
                 /\ IF proceeds(answer)
                    THEN pc' = "parent" /\ UNCHANGED << exit_code, message >>
                    ELSE Return(0, "Operation cancelled")
            ELSE /\ end_date' = t
                 /\ answer
                 /\ UNCHANGED answers
                 /\ IF start_date > t
                    THEN Return(0, "Start date is after current time")
                    ELSE pc' = "parent" /\ UNCHANGED << exit_code, message >>
       ELSE /\ answer
            /\ pc' = "parent"
            /\ UNCHANGED << end_date, exit_code, message, answers >>
    /\ UNCHANGED << entry, args, commits, revision_range_start, start_date,
                    random_days, target_date, timestamps, mapping, filter_file,
                    history, origin, reflog, branches, stash, dirty, oracle_calls,
                    target_ref, runs, run_start, prev >>

start_before_parent ==
    /\ revision_range_start # None
    /\ start_date < get_commit_date(revision_range_start)

ParentCheck(answer) ==
    /\ pc = "parent"
    /\ IF start_before_parent
       THEN /\ answers' = answers \cup { asked("parent", answer) }
            /\ IF proceeds(answer)
               THEN pc' = "divergence" /\ UNCHANGED << exit_code, message >>
               ELSE Return(0, "Operation cancelled")
       ELSE /\ answer
            /\ pc' = "divergence"
            /\ UNCHANGED << exit_code, message, answers >>
    /\ UNCHANGED << entry, args, commits, revision_range_start, start_date, end_date,
                    now, random_days, target_date, timestamps, mapping, filter_file,
                    history, origin, reflog, branches, stash, dirty, oracle_calls,
                    target_ref, runs, run_start, prev >>

\* check_branch_divergence: ahead and behind, None without origin/master
ahead == Len(history) - merge_base
behind == (Len(origin.head) - merge_base) + origin.behind

diverged ==
    /\ origin.resolvable
    /\ (ahead > DivergenceThreshold \/ behind > DivergenceThreshold)

DivergenceCheck(answer) ==
    /\ pc = "divergence"
    /\ IF diverged
       THEN /\ answers' = answers \cup { asked("divergence", answer) }
            /\ IF proceeds(answer)
               THEN pc' = "generate" /\ UNCHANGED << exit_code, message >>
               ELSE Return(0, "Operation cancelled")
       ELSE /\ answer
            /\ pc' = "generate"
            /\ UNCHANGED << exit_code, message, answers >>
    /\ UNCHANGED << entry, args, commits, revision_range_start, start_date, end_date,
                    now, random_days, target_date, timestamps, mapping, filter_file,
                    history, origin, reflog, branches, stash, dirty, oracle_calls,
                    target_ref, runs, run_start, prev >>

(***************************************************************************)
(* "Generating timestamps".  Package main passes max_time=now to           *)
(* generate_work_hours_timestamp(start_date, end_date), which has no such  *)
(* parameter: the call raises TypeError and the run dies.                  *)
(***************************************************************************)
sampler_parameters == {"start_date", "end_date"}

GenerateWithMaxTime ==
    /\ pc = "generate"
    /\ entry = "package"
    /\ Len(timestamps) < Len(commits)
    /\ "max_time" \notin sampler_parameters
    /\ Return(1, "TypeError")
    /\ UNCHANGED << entry, args, commits, revision_range_start, start_date, end_date,
                    now, random_days, target_date, timestamps, mapping, filter_file,
                    history, origin, reflog, branches, stash, dirty, oracle_calls,
                    target_ref, runs, run_start, prev, answers >>

(***************************************************************************)
(* The script's loop over generate_work_hours_timestamp(start, end): one   *)
(* step per iteration of the sampler's `while True`.                       *)
(***************************************************************************)
\* a draw of random_days that is_work_day rejects: the loop goes round
SampleReject(k) ==
    /\ pc = "generate"
    /\ entry = "script"
    /\ Len(timestamps) < Len(commits)
    /\ k \in day_offsets(start_date, end_date)
    /\ ~is_work_day(plus_days(start_date, k))
    /\ random_days' = k
    /\ target_date' = plus_days(start_date, k)
    /\ UNCHANGED << entry, pc, args, commits, revision_range_start, start_date,
                    end_date, now, timestamps, mapping, filter_file, history, origin,
                    reflog, branches, stash, dirty, oracle_calls, target_ref,
                    exit_code, message, runs, run_start, prev, answers >>

\* a draw that is a work day: hour, minute and second are drawn, the
\* sampler returns and main appends the result
SampleAccept(k, hour, minute, second) ==
    /\ pc = "generate"
    /\ entry = "script"
    /\ Len(timestamps) < Len(commits)
    /\ k \in day_offsets(start_date, end_date)
    /\ hour \in hour_range /\ minute \in minute_range /\ second \in second_range
    /\ is_work_day(plus_days(start_date, k))
    /\ timestamps' =
          Append(timestamps, replace(plus_days(start_date, k), hour, minute, second))
    /\ random_days' = None
    /\ target_date' = None
    /\ pc' = IF Len(timestamps) + 1 = Len(commits) THEN "plan" ELSE "generate"
    /\ UNCHANGED << entry, args, commits, revision_range_start, start_date, end_date,
                    now, mapping, filter_file, history, origin, reflog, branches,
                    stash, dirty, oracle_calls, target_ref, exit_code, message, runs,
                    run_start, prev, answers >>

(***************************************************************************)
(* timestamps.sort(), the mapping, and the filter script on disk.          *)
(***************************************************************************)
index_of(commit) == CHOOSE i \in 1 .. Len(commits) : commits[i] = commit

planned(sorted_timestamps) ==
    [c \in { commits[i] : i \in 1 .. Len(commits) } |->
        strftime(sorted_timestamps[index_of(c)])]

BuildPlan ==
    /\ pc = "plan"
    /\ timestamps' = sorted(timestamps)
    /\ mapping' = planned(sorted(timestamps))
    /\ filter_file' = TRUE
    /\ pc' = IF entry = "package" THEN "backup" ELSE "oracle"
    /\ UNCHANGED << entry, args, commits, revision_range_start, start_date, end_date,
                    now, random_days, target_date, history, origin, reflog, branches,
                    stash, dirty, oracle_calls, target_ref, exit_code, message, runs,
                    run_start, prev, answers >>

(***************************************************************************)
(* "BACKUP CREATION" of package main, at clock time t: skipped with        *)
(* --no-backup; `git branch` fails when the name is taken, or for a reason *)
(* of its own (git_ok FALSE), and create_backup_branch then returns None.  *)
(* No run of main gets here: "Generating timestamps" ends every package    *)
(* run.                                                                    *)
(***************************************************************************)
continues_only_with_backup(created) == created

\* after print_error("Failed to create backup branch. Continuing...") main
\* goes on to run_filter_branch: there is no return
continues_after_backup(created) == TRUE

CreateBackup(t, git_ok) ==
    /\ pc = "backup"
    /\ entry = "package"
    /\ t >= now
    /\ args.no_backup => (t = now /\ git_ok)
    /\ (\E b \in branches : b.name = strftime(t)) => git_ok
    /\ LET created == /\ ~args.no_backup
                       /\ git_ok
                       /\ ~\E b \in branches : b.name = strftime(t)
       IN  /\ now' = IF args.no_backup THEN now ELSE t
           /\ branches' = IF created
                          THEN branches \cup { [name |-> strftime(t), head |-> history] }
                          ELSE branches
           /\ message' = IF args.no_backup THEN "Skipping backup creation (as requested)."
                         ELSE IF created THEN "Backup created"
                         ELSE "Failed to create backup branch. Continuing..."
           /\ pc' = IF continues_after_backup(created \/ args.no_backup) THEN "oracle"
                    ELSE "done"
    /\ UNCHANGED << entry, args, commits, revision_range_start, start_date, end_date,
                    random_days, target_date, timestamps, mapping, filter_file,
                    history, origin, reflog, stash, dirty, oracle_calls, target_ref,
                    exit_code, runs, run_start, prev, answers >>

\* core.run_filter_branch: the commits of the revision range of package main
package_range_commits(a, anchor) ==
    IF a.last # 0 THEN (Len(history) - a.last + 1) .. Len(history)
    ELSE IF (a.unpushed \/ a.first # 0) /\ anchor # None
    THEN (anchor + 1) .. Len(history)
    ELSE 1 .. Len(history)

(***************************************************************************)
(* The call of git filter-branch, by the script and by                     *)
(* core.run_filter_branch.  `git_ok` is FALSE when git fails for a reason  *)
(* of its own.                                                             *)
(***************************************************************************)
rewrite_entry(old, head) == [msg |-> "filter-branch: rewrite", old |-> old, head |-> head]

\* subprocess.check_call(cmd, shell=True) is called once, outside any loop
invoked_with_retry(calls) == calls + 2

invoked(calls) == calls + 1

RunFilterBranch(git_ok) ==
    /\ pc = "oracle"
    /\ oracle_calls' = invoked(oracle_calls)
    /\ (dirty \/ ~range_valid(args.last)) => git_ok
    /\ IF git_ok /\ ~dirty /\ range_valid(args.last)
       THEN LET range == IF entry = "script" THEN range_commits(args.last)
                         ELSE package_range_commits(args, revision_range_start)
                rewritten == filtered(range, mapping)
            IN  /\ history' = rewritten
                /\ reflog' = IF rewritten # history
                             THEN << rewrite_entry(history, rewritten) >> \o reflog
                             ELSE reflog
                /\ message' = "Success"
       ELSE /\ message' = "Error running git filter-branch"
            /\ UNCHANGED << history, reflog >>
    /\ pc' = "cleanup"
    /\ UNCHANGED << entry, args, commits, revision_range_start, start_date, end_date,
                    now, random_days, target_date, timestamps, mapping, filter_file,
                    origin, branches, stash, dirty, target_ref, exit_code, runs,
                    run_start, prev, answers >>

file_left_behind(exists) == exists

\* if os.path.exists(filter_file): os.remove(filter_file)
remove_if_exists(exists) == FALSE

Cleanup ==
    /\ pc = "cleanup"
    /\ filter_file' = remove_if_exists(filter_file)
    /\ pc' = "done"
    /\ exit_code' = 0
    /\ UNCHANGED << entry, args, commits, revision_range_start, start_date, end_date,
                    now, random_days, target_date, timestamps, mapping, history,
                    origin, reflog, branches, stash, dirty, oracle_calls, target_ref,
                    message, runs, run_start, prev, answers >>

(***************************************************************************)
(* Package main without arguments: the interactive menu.  Viewing the      *)
(* history and declining the revert change nothing and show the menu       *)
(* again.                                                                  *)
(***************************************************************************)
\* rich is not installed: the hint and the help are printed
InteractiveWithoutRich ==
    /\ pc = "menu"
    /\ answers = {}
    /\ Return(0, "Install 'rich' for interactive mode")
    /\ UNCHANGED << entry, args, commits, revision_range_start, start_date, end_date,
                    now, random_days, target_date, timestamps, mapping, filter_file,
                    history, origin, reflog, branches, stash, dirty, oracle_calls,
                    target_ref, runs, run_start, prev, answers >>

\* "Auto-Spread Unpushed"
InteractiveUnpushed ==
    /\ pc = "menu"
    /\ args' = [args EXCEPT !.unpushed = TRUE]
    /\ answers' = {}
    /\ pc' = "select"
    /\ UNCHANGED << entry, commits, revision_range_start, start_date, end_date, now,
                    random_days, target_date, timestamps, mapping, filter_file,
                    history, origin, reflog, branches, stash, dirty, oracle_calls,
                    target_ref, exit_code, message, runs, run_start, prev >>

\* "Custom Range": the dates typed, None for an empty line
InteractiveCustom(start, end) ==
    /\ pc = "menu"
    /\ args' = [args EXCEPT !.start = start, !.end = end]
    /\ answers' = {}
    /\ pc' = "select"
    /\ UNCHANGED << entry, commits, revision_range_start, start_date, end_date, now,
                    random_days, target_date, timestamps, mapping, filter_file,
                    history, origin, reflog, branches, stash, dirty, oracle_calls,
                    target_ref, exit_code, message, runs, run_start, prev >>

\* "Revert Last Operation", confirmed; `backup` is the reply to "Create a
\* backup branch before reverting?"
InteractiveRevert(backup) ==
    /\ pc = "menu"
    /\ Len(reflog) < MaxReflog
    /\ answers' = { asked("revert", TRUE), asked("backup", backup) }
    /\ pc' = "revert"
    /\ UNCHANGED << entry, args, commits, revision_range_start, start_date, end_date,
                    now, random_days, target_date, timestamps, mapping, filter_file,
                    history, origin, reflog, branches, stash, dirty, oracle_calls,
                    target_ref, exit_code, message, runs, run_start, prev >>

\* "Quit"
InteractiveQuit ==
    /\ pc = "menu"
    /\ pc' = "done"
    /\ exit_code' = 0
    /\ UNCHANGED << entry, args, commits, revision_range_start, start_date, end_date,
                    now, random_days, target_date, timestamps, mapping, filter_file,
                    history, origin, reflog, branches, stash, dirty, oracle_calls,
                    target_ref, message, runs, run_start, prev, answers >>

InteractiveMode ==
    \/ InteractiveWithoutRich
    \/ InteractiveUnpushed
    \/ \E start \in date_args : \E end \in date_args : InteractiveCustom(start, end)
    \/ \E backup \in BOOLEAN : InteractiveRevert(backup)
    \/ InteractiveQuit

(***************************************************************************)
(* --revert and the menu's revert: revert_last_operation(no_backup).       *)
(***************************************************************************)
\* the argument of revert_last_operation
revert_no_backup ==
    IF args.revert THEN args.no_backup ELSE asked("backup", FALSE) \in answers

\* the result is printed; --revert returns, the menu is shown again
RevertReturn(report) ==
    IF args.revert THEN Return(0, report)
    ELSE pc' = "menu" /\ message' = report /\ UNCHANGED exit_code

\* detect_last_filter_branch: the index i of the first reflog line that
\* holds "filter-branch: rewrite" (HEAD@{i}), None when there is none
rewrite_lines == { i \in 1 .. Len(reflog) : reflog[i].msg = "filter-branch: rewrite" }

detect_assuming_rewrite == IF reflog = << >> THEN None ELSE 0

detect_last_filter_branch ==
    IF rewrite_lines = {} THEN None
    ELSE (CHOOSE i \in rewrite_lines : \A j \in rewrite_lines : i <= j) - 1

\* "target": HEAD@{i+1}, the entry below the rewrite entry HEAD@{i}
revert_target_newest(index) == 1

revert_target(index) == index + 1

\* create_backup_branch at clock time t: git branch fails when the name is taken
backup_name(t) == strftime(t)

create_backup_ignoring_flag(no_backup, t) ==
    IF \E b \in branches : b.name = backup_name(t) THEN branches
    ELSE branches \cup { [name |-> backup_name(t), head |-> history] }

backup_branches(no_backup, t) ==
    IF no_backup THEN branches
    ELSE IF \E b \in branches : b.name = backup_name(t) THEN branches
    ELSE branches \cup { [name |-> backup_name(t), head |-> history] }

RevertDetect(t) ==
    /\ pc = "revert"
    /\ t >= now
    /\ IF detect_last_filter_branch = None
       THEN /\ t = now
            /\ RevertReturn("No 'filter-branch' operation found")
            /\ UNCHANGED << target_ref, branches, now >>
       ELSE /\ target_ref' = revert_target(detect_last_filter_branch)
            /\ revert_no_backup => t = now
            /\ now' = t
            /\ branches' = backup_branches(revert_no_backup, t)
            /\ pc' = "revert_stash"
            /\ UNCHANGED << exit_code, message >>
    /\ UNCHANGED << entry, args, commits, revision_range_start, start_date, end_date,
                    random_days, target_date, timestamps, mapping, filter_file,
                    history, origin, reflog, stash, dirty, oracle_calls, runs,
                    run_start, prev, answers >>

\* git stash push: stores the changes and resets the work tree, if any
RevertStash ==
    /\ pc = "revert_stash"
    /\ IF dirty
       THEN /\ stash' = << "gitfucktime-revert-auto-stash" >> \o stash
            /\ dirty' = FALSE
            /\ reflog' = << [msg |-> "reset: moving to", old |-> history,
                             head |-> history] >> \o reflog
       ELSE UNCHANGED << stash, dirty, reflog >>
    /\ pc' = "revert_reset"
    /\ UNCHANGED << entry, args, commits, revision_range_start, start_date, end_date,
                    now, random_days, target_date, timestamps, mapping, filter_file,
                    history, origin, branches, oracle_calls, target_ref, exit_code,
                    message, runs, run_start, prev, answers >>

\* git rev-parse HEAD@{n}: the value of the n-th line below the newest; with
\* n the number of lines, the old value of the oldest line, if it has one
reflog_resolves(n) ==
    \/ n + 1 <= Len(reflog)
    \/ n = Len(reflog) /\ n > 0 /\ reflog[n].old # << >>

reflog_at(n) == IF n + 1 <= Len(reflog) THEN reflog[n + 1].head ELSE reflog[n].old

\* git reset --hard HEAD@{target_ref}; `git_ok` is FALSE when git fails for a
\* reason of its own
RevertReset(git_ok) ==
    /\ pc = "revert_reset"
    /\ ~reflog_resolves(target_ref) => git_ok
    /\ IF git_ok /\ reflog_resolves(target_ref)
       THEN /\ history' = reflog_at(target_ref)
            /\ reflog' = << [msg |-> "reset: moving to", old |-> history,
                             head |-> reflog_at(target_ref)] >> \o reflog
            /\ pc' = "revert_pop"
            /\ UNCHANGED << exit_code, message >>
       ELSE /\ RevertReturn("Git command failed")
            /\ UNCHANGED << history, reflog >>
    /\ UNCHANGED << entry, args, commits, revision_range_start, start_date, end_date,
                    now, random_days, target_date, timestamps, mapping, filter_file,
                    origin, branches, stash, dirty, oracle_calls, target_ref, runs,
                    run_start, prev, answers >>

\* git stash pop
RevertPop ==
    /\ pc = "revert_pop"
    /\ IF stash # << >>
       THEN stash' = Tail(stash) /\ dirty' = TRUE
       ELSE UNCHANGED << stash, dirty >>
    /\ RevertReturn("Reverted")
    /\ UNCHANGED << entry, args, commits, revision_range_start, start_date, end_date,
                    now, random_days, target_date, timestamps, mapping, filter_file,
                    history, origin, reflog, branches, oracle_calls, target_ref, runs,
                    run_start, prev, answers >>

(***************************************************************************)
(* One rewrite run of either entry point on a fresh repository.            *)
(***************************************************************************)
entry_points == {"script", "package"}

\* the draws of hour, minute and second that the runs explore
hours_drawn == {9, 16}
minutes_drawn == {0, 59}

StartRewrite ==
    \E e \in entry_points : \E a \in rewrite_args(e) : pc = "idle" /\ Start(e, a)

Next ==
    \/ StartRewrite
    \/ SelectCommits
    \/ \E typed \in date_args : ResolveDates(typed)
    \/ \E t \in clock : \E answer \in BOOLEAN : FutureCheck(t, answer)
    \/ \E answer \in BOOLEAN : ParentCheck(answer)
    \/ \E answer \in BOOLEAN : DivergenceCheck(answer)
    \/ GenerateWithMaxTime
    \/ \E k \in day_offsets(start_date, end_date) : SampleReject(k)
    \/ \E k \in day_offsets(start_date, end_date) : \E h \in hours_drawn :
            SampleAccept(k, h, 0, 0)
    \/ BuildPlan
    \/ \E git_ok \in BOOLEAN : RunFilterBranch(git_ok)
    \/ Cleanup
    \/ InteractiveMode
    \/ \E t \in clock : RevertDetect(t)

Spec == Init /\ [][Next]_vars

(***************************************************************************)
(* The sampler alone: the script at "Generating timestamps" with one       *)
(* commit selected, over every window of the bounds: a start at any day of *)
(* the week, at midnight (a date given) or at a time of day (a start       *)
(* derived from a commit or from the clock), and an end at 23:59:59.       *)
(***************************************************************************)
start_times == { 0, 3 * HourSeconds, 23 * HourSeconds }

InitSampler ==
    \E d \in 0 .. 6 : \E tod \in start_times : \E span \in 0 .. MaxSpan :
        /\ entry = "script"
        /\ pc = "generate"
        /\ args = no_args
        /\ commits = << 1 >>
        /\ revision_range_start = None
        /\ start_date = midnight(d) + tod
        /\ end_date = end_of_day(midnight(d + span))
        /\ now = first_clock
        /\ random_days = None
        /\ target_date = None
        /\ timestamps = << >>
        /\ mapping = << >>
        /\ filter_file = FALSE
        /\ history = fixture_history(1)
        /\ origin = [resolvable |-> FALSE, head |-> << >>, behind |-> 0]
        /\ reflog = fixture_reflog(1)
        /\ branches = {}
        /\ stash = << >>
        /\ dirty = FALSE
        /\ oracle_calls = 0
        /\ target_ref = None
        /\ exit_code = Running
        /\ message = ""
        /\ runs = 1
        /\ run_start = [head |-> fixture_history(1), dirty |-> FALSE,
                        branches |-> {}, stash |-> << >>]
        /\ prev = no_run
        /\ answers = {}

Draw(k) ==
    \/ SampleReject(k)
    \/ \E h \in hour_range : \E m \in minutes_drawn : \E s \in minutes_drawn :
            SampleAccept(k, h, m, s)

NextSampler == \E k \in 0 .. MaxSpan + 1 : Draw(k)

SpecSampler == InitSampler /\ [][NextSampler]_vars

\* random.randint is fair: every offset of the range is drawn again and again
SpecSamplerFair ==
    InitSampler /\ [][NextSampler]_vars /\ \A k \in 0 .. MaxSpan + 1 : WF_vars(Draw(k))

(***************************************************************************)
(* Runs in a row on one repository: rewrites by the script, rewrites and   *)
(* reverts by package main.                                                *)
(***************************************************************************)
round_trip_args(e) ==
    IF e = "script"
    THEN { [no_args EXCEPT !.last = 1, !.start = midnight(13), !.end = midnight(14)] }
    ELSE revert_args \cup
         { [no_args EXCEPT !.last = 1, !.start = midnight(13), !.no_backup = nb] :
             nb \in BOOLEAN }

InitRoundTrip ==
    \E n \in 1 .. MaxCommits : \E d \in BOOLEAN :
        \E st \in { << >>, << "stashed by the user" >> } : \E kept \in {0, n} :
            InitRepository(n, [resolvable |-> FALSE, head |-> << >>, behind |-> 0],
                           d, st, kept)

\* between two runs the user changes a tracked file
EditFile ==
    /\ pc = "done"
    /\ ~dirty
    /\ runs < MaxRuns
    /\ dirty' = TRUE
    /\ pc' = "idle"
    /\ UNCHANGED << entry, args, commits, revision_range_start, start_date, end_date,
                    now, random_days, target_date, timestamps, mapping, filter_file,
                    history, origin, reflog, branches, stash, oracle_calls,
                    target_ref, exit_code, message, runs, run_start, prev, answers >>

StartRoundTrip ==
    \E e \in entry_points : \E a \in round_trip_args(e) : Start(e, a)

NextRoundTrip ==
    \/ StartRoundTrip
    \/ SelectCommits
    \/ ResolveDates(None)
    \/ \E t \in clock : \E answer \in BOOLEAN : FutureCheck(t, answer)
    \/ \E answer \in BOOLEAN : ParentCheck(answer)
    \/ \E answer \in BOOLEAN : DivergenceCheck(answer)
    \/ GenerateWithMaxTime
    \/ \E k \in day_offsets(start_date, end_date) : SampleReject(k)
    \/ \E k \in day_offsets(start_date, end_date) : \E h \in hours_drawn :
            SampleAccept(k, h, 0, 0)
    \/ BuildPlan
    \/ \E git_ok \in BOOLEAN : RunFilterBranch(git_ok)
    \/ Cleanup
    \/ \E t \in clock : RevertDetect(t)
    \/ RevertStash
    \/ \E git_ok \in BOOLEAN : RevertReset(git_ok)
    \/ RevertPop
    \/ EditFile

SpecRoundTrip == InitRoundTrip /\ [][NextRoundTrip]_vars

(***************************************************************************)
(* One run of package main without arguments, on a repository that one run *)
(* of the script may have rewritten before.                                *)
(***************************************************************************)
StartMenu ==
    \/ \E a \in round_trip_args("script") : entry = "none" /\ Start("script", a)
    \/ entry # "package" /\ Start("package", no_args)

NextMenu ==
    \/ StartMenu
    \/ InteractiveMode
    \/ SelectCommits
    \/ \E typed \in date_args : ResolveDates(typed)
    \/ \E t \in clock : \E answer \in BOOLEAN : FutureCheck(t, answer)
    \/ \E answer \in BOOLEAN : ParentCheck(answer)
    \/ \E answer \in BOOLEAN : DivergenceCheck(answer)
    \/ GenerateWithMaxTime
    \/ \E k \in day_offsets(start_date, end_date) : SampleReject(k)
    \/ \E k \in day_offsets(start_date, end_date) : \E h \in hours_drawn :
            SampleAccept(k, h, 0, 0)
    \/ BuildPlan
    \/ \E git_ok \in BOOLEAN : RunFilterBranch(git_ok)
    \/ Cleanup
    \/ \E t \in clock : RevertDetect(t)
    \/ RevertStash
    \/ \E git_ok \in BOOLEAN : RevertReset(git_ok)
    \/ RevertPop
    \/ EditFile

SpecMenu == InitRoundTrip /\ [][NextMenu]_vars

(***************************************************************************)
(* The tail of package main (main.py 355-397) on its own: the plan, the    *)
(* backup, core.run_filter_branch and the cleanup.  The initial states are *)
(* those in which a run with --start and --end of one Monday leaves the    *)
(* checks, every confirmation it was asked for given, with one sample      *)
(* drawn for every commit as a two-argument call of the sampler returns    *)
(* it.  A branch with the backup name of the first clock second may exist. *)
(***************************************************************************)
oracle_day == midnight(14)

oracle_args ==
    { a \in rewrite_args("package") :
        a.start = oracle_day /\ a.end = oracle_day /\ ~(a.last # 0 /\ a.first # 0) }

\* the confirmations of main.py 304-342 that the run has been asked for
confirmations ==
    (IF end_date > now /\ future_needs_confirm THEN { asked("future", TRUE) } ELSE {})
    \cup (IF start_before_parent THEN { asked("parent", TRUE) } ELSE {})
    \cup (IF diverged THEN { asked("divergence", TRUE) } ELSE {})

InitOracle ==
    \E n \in 1 .. MaxCommits : \E o \in origins(n) : \E d \in BOOLEAN :
      \E a \in oracle_args : \E h \in [1 .. MaxCommits -> hours_drawn] :
        \E t \in clock : \E taken \in BOOLEAN :
        /\ entry = "package"
        /\ pc = "plan"
        /\ args = a
        /\ history = fixture_history(n)
        /\ origin = o
        /\ reflog = fixture_reflog(n)
        /\ commits = selected_commits(a)
        /\ Len(commits) > 0
        /\ revision_range_start = selected_anchor(a)
        /\ start_date = oracle_day
        /\ end_date = end_of_day(oracle_day)
        /\ now = t
        /\ random_days = None
        /\ target_date = None
        /\ timestamps = [i \in 1 .. Len(commits) |-> replace(oracle_day, h[i], 0, 0)]
        /\ mapping = << >>
        /\ filter_file = FALSE
        /\ branches = IF taken
                      THEN { [name |-> strftime(first_clock), head |-> fixture_history(n)] }
                      ELSE {}
        /\ stash = << >>
        /\ dirty = d
        /\ oracle_calls = 0
        /\ target_ref = None
        /\ exit_code = Running
        /\ message = selection_warning(a)
        /\ runs = 1
        /\ run_start = [head |-> history, dirty |-> dirty,
                        branches |-> branches, stash |-> stash]
        /\ prev = no_run
        /\ answers = confirmations

NextOracle ==
    \/ BuildPlan
    \/ \E t \in clock : \E git_ok \in BOOLEAN : CreateBackup(t, git_ok)
    \/ \E git_ok \in BOOLEAN : RunFilterBranch(git_ok)
    \/ Cleanup

SpecOracle == InitOracle /\ [][NextOracle]_vars

(***************************************************************************)
(* The checks of package main alone, with a start date that lies before    *)
(* every commit of the repository among the --start dates.                 *)
(***************************************************************************)
early_start == midnight(5)

guard_args ==
    { [no_args EXCEPT !.unpushed = u, !.last = l, !.first = f,
                      !.start = s, !.end = t] :
        u \in BOOLEAN, l \in 0 .. MaxN, f \in 0 .. MaxN,
        s \in date_args \cup {early_start}, t \in date_args }

StartGuards == \E a \in guard_args : pc = "idle" /\ Start("package", a)

NextGuards ==
    \/ StartGuards
    \/ SelectCommits
    \/ \E typed \in date_args : ResolveDates(typed)
    \/ \E t \in clock : \E answer \in BOOLEAN : FutureCheck(t, answer)
    \/ \E answer \in BOOLEAN : ParentCheck(answer)
    \/ \E answer \in BOOLEAN : DivergenceCheck(answer)
    \/ GenerateWithMaxTime
    \/ InteractiveMode
    \/ \E t \in clock : RevertDetect(t)

SpecGuards == Init /\ [][NextGuards]_vars

(***************************************************************************)
(* Properties.                                                             *)
(***************************************************************************)
plan_built == DOMAIN mapping # {}

\* the instant the plan assigns to the i-th selected commit
assigned(i) == git_date(mapping[commits[i]])

\* how many of the drawn samples are earlier than v, and not later than v
drawn_before(v) == Cardinality({ j \in 1 .. Len(timestamps) : timestamps[j] < v })
drawn_upto(v) == Cardinality({ j \in 1 .. Len(timestamps) : timestamps[j] <= v })

\* the calendar days of a window hold a Monday..Friday
window_has_work_day ==
    \E d \in (start_date \div DaySeconds) .. (end_date \div DaySeconds) : d % 7 < 5

\* C1: in every plan the selected commits are listed ancestor before
\* descendant, their assigned instants never decrease along that list, and
\* the i-th commit of the list has the i-th smallest of the drawn samples.
C1_PlanFollowsAncestry ==
    plan_built =>
        /\ \A i, j \in 1 .. Len(commits) :
              i < j => commits[i] < commits[j] /\ assigned(i) <= assigned(j)
        /\ \A i \in 1 .. Len(commits) :
              drawn_before(assigned(i)) < i /\ i <= drawn_upto(assigned(i))

C1_Witness ==
    /\ plan_built
    /\ Len(commits) >= 2
    /\ assigned(1) < assigned(2)

\* C2: every instant the sampler returned lies inside the window:
\* start_date <= instant <= end_date.
C2_InsideWindow ==
    \A i \in 1 .. Len(timestamps) :
        start_date <= timestamps[i] /\ timestamps[i] <= end_date

\* C3: every instant the sampler returned is on Monday..Friday and has an
\* hour from 9 to 16.
C3_WorkDayWorkHours ==
    \A i \in 1 .. Len(timestamps) :
        /\ (timestamps[i] \div DaySeconds) % 7 \in 0 .. 4
        /\ (timestamps[i] % DaySeconds) \div HourSeconds \in 9 .. 16

C3_Witness ==
    /\ pc = "plan"
    /\ Len(timestamps) = 1
    /\ (start_date \div DaySeconds) % 7 = 5
    /\ (timestamps[1] \div DaySeconds) % 7 = 0

\* C4: a run that hands the current time to the sampler as its maximum is
\* not turned down by the sampler: no run ends in the sampler's TypeError.
C4_SamplerTakesMaximum ==
    ~(entry = "package" /\ pc = "done" /\ message = "TypeError")

\* C5: a revert that follows a successful rewrite of a repository with a
\* clean working tree leaves HEAD at the commit it was at before the rewrite.
C5_RevertRestoresHead ==
    (pc = "done" /\ args.revert /\ prev.op = "rewrite"
        /\ ~prev.dirty /\ ~run_start.dirty) =>
        history = prev.head

\* C6: whenever the rewrite oracle has been invoked in a run that does not
\* suppress the backup, a backup reference at the pre-rewrite HEAD exists.
C6_BackupBeforeOracle ==
    (oracle_calls > 0 /\ ~args.no_backup) =>
        \E b \in branches : b.head = run_start.head

\* C7: in a run with --no-backup, rewrite or revert, the backup references
\* are those that existed when the run started.
C7_NoBackupKeepsReferences ==
    args.no_backup => branches = run_start.branches

C7_Witness ==
    /\ pc = "done"
    /\ args.revert /\ args.no_backup
    /\ message = "Reverted"
    /\ history # run_start.head
    /\ branches = run_start.branches

\* C8: after a successful rewrite the plan has one entry per selected
\* commit, each selected commit carries its planned timestamp, and every
\* other commit of the history carries the timestamp it had before.
C8_OnlySelectionRetimed ==
    (message = "Success" /\ ~args.revert) =>
        /\ DOMAIN mapping = { commits[i] : i \in 1 .. Len(commits) }
        /\ Cardinality(DOMAIN mapping) = Len(commits)
        /\ Len(history) = Len(run_start.head)
        /\ \A c \in 1 .. Len(history) :
              IF c \in DOMAIN mapping
              THEN history[c] = git_date(mapping[c])
              ELSE history[c] = run_start.head[c]

C8_Witness ==
    /\ message = "Success"
    /\ args.last = 1
    /\ Len(history) = 2
    /\ history[2] # run_start.head[2]
    /\ history[1] = run_start.head[1]

\* C9: when the days of the window hold no Monday..Friday, the run mutates
\* nothing: no backup reference, no mapping file, no oracle call.
C9_EmptyWindowNoMutation ==
    (start_date # None /\ end_date # None /\ start_date <= end_date
        /\ ~window_has_work_day) =>
        /\ ~filter_file
        /\ oracle_calls = 0
        /\ branches = run_start.branches

\* C10: with fair draws, the sampler returns for every window whose days
\* hold a Monday..Friday.
C10_SamplerReturns ==
    (pc = "generate" /\ window_has_work_day) ~> (pc = "plan")

C10_Witness ==
    /\ pc = "plan"
    /\ Len(timestamps) = 1
    /\ (start_date \div DaySeconds) % 7 = 5
    /\ end_date \div DaySeconds = (start_date \div DaySeconds) + 2

\* what a run that mutated nothing leaves behind: no mapping file, no oracle
\* call, the backup references and the history of its start
no_mutation ==
    /\ ~filter_file
    /\ oracle_calls = 0
    /\ branches = run_start.branches
    /\ history = run_start.head

\* the reports of the checks that precede or are the --last/--first check
rejections ==
    { "No commits to process", "No start date",
      "Start date must be before end date", "Cannot use both --last and --first" }

\* C11: a run given both --last N and --first N never gets past the date
\* checks and mutates nothing: no backup reference, no mapping file, no oracle
\* call; it ends rejected, with the conflicting-flags report whenever the
\* selection is not empty and the window is valid.
C11_ConflictingSelectionRejected ==
    (~args.revert /\ args.last # 0 /\ args.first # 0) =>
        /\ pc \in {"select", "dates", "done"}
        /\ no_mutation
        /\ pc = "done" => message \in rejections
        /\ (pc = "done" /\ start_date # None /\ start_date <= end_date) =>
              message = "Cannot use both --last and --first"

C11_Witness ==
    /\ pc = "done"
    /\ entry = "package"
    /\ args.last = 1 /\ args.first = 1
    /\ message = "Cannot use both --last and --first"
    /\ no_mutation

\* the reports of validation failures and of a failed rewrite oracle
failures ==
    { "No start date", "Start date must be before end date",
      "Cannot use both --last and --first", "Start date is after current time",
      "Error running git filter-branch" }

\* C12: a run that ended in a validation failure (unusable date, start after
\* end, conflicting flags) or in a failure of the rewrite oracle has exit
\* status 1; status 0 is left to successful and cancelled runs.
C12_FailuresExitNonZero ==
    (pc = "done" /\ message \in failures) => exit_code = 1

set_of(list) == { list[i] : i \in 1 .. Len(list) }

\* C13: on a history of T commits, for every n in 0..T, the commits selected
\* by --last n and the commits selected by --first (T - n) have no commit in
\* common and together are the T commits of the history.
C13_LastFirstPartition ==
    (pc = "dates" /\ ~args.unpushed /\ args.first = 0
        /\ args.last <= Len(history)) =>
        LET last_n == set_of(commits)
            first_rest ==
                set_of(selected_commits(
                    [args EXCEPT !.last = 0, !.first = Len(history) - args.last]))
        IN  /\ last_n \cap first_rest = {}
            /\ last_n \cup first_rest = 1 .. Len(history)

\* C14: a run with --unpushed (and no --last, no --first) on a repository
\* whose origin/master cannot be resolved selects the whole history, oldest
\* commit first, with no anchor; the selection step warns and goes on to the
\* dates; and a successful rewrite of such a run has retimed every commit.
C14_UnpushedFallback ==
    (~args.revert /\ args.unpushed /\ ~origin.resolvable
        /\ args.last = 0 /\ args.first = 0 /\ pc # "select") =>
        /\ commits = [i \in 1 .. Len(history) |-> i]
        /\ revision_range_start = None
        /\ pc = "dates" =>
              /\ message = "Could not find origin/master, using all commits on HEAD"
              /\ exit_code = Running
        /\ message = "Success" =>
              \A c \in 1 .. Len(history) : history[c] = git_date(mapping[c])

C14_Witness ==
    /\ args.unpushed /\ ~origin.resolvable
    /\ args.last = 0 /\ args.first = 0
    /\ message = "Success"
    /\ Len(commits) = 2
    /\ revision_range_start = None
    /\ history[1] # run_start.head[1] /\ history[2] # run_start.head[2]

\* the run is past the checks of the window
window_settled == pc \in {"parent", "divergence", "generate", "plan", "oracle", "cleanup"}

\* C15: in a run without --end that is past the window checks, the end of
\* the window is the start plus max(1, N - 1) days for N selected commits, or
\* the current time when that lies after the current time, and start <= end.
C15_DerivedEndClamped ==
    (~args.revert /\ args.end = None /\ window_settled) =>
        /\ end_date = Min(auto_end(start_date, Len(commits)), now)
        /\ start_date <= end_date

\* C16: the mapping file exists when the rewrite oracle is invoked and until
\* the clean-up, and no finished run leaves it behind, whether the oracle
\* succeeded or failed.
C16_MappingFileTransient ==
    /\ pc \in {"oracle", "cleanup"} => filter_file
    /\ pc = "done" => ~filter_file

C16_Witness ==
    /\ pc = "done"
    /\ oracle_calls = 1
    /\ message = "Error running git filter-branch"
    /\ ~filter_file

\* C17: when the ahead or the behind count against origin/master exceeds the
\* threshold, the rewrite oracle has been invoked only in runs whose user
\* confirmed the divergence; when neither does, or origin/master cannot be
\* resolved, no run asks about divergence.
C17_DivergenceConfirmed ==
    /\ (oracle_calls > 0 /\ diverged) => asked("divergence", TRUE) \in answers
    /\ ~diverged => \A a \in answers : a.question # "divergence"

\* C18: a run that has reached timestamp generation has a window with
\* start <= end <= now, unless its user confirmed the future window.
C18_FutureWindowConfirmed ==
    (~args.revert /\ pc \in {"generate", "plan", "oracle", "cleanup"}) =>
        \/ asked("future", TRUE) \in answers
        \/ start_date <= end_date /\ end_date <= now

\* C19: a run in which the user declined a confirmation (future window, start
\* before the anchor, divergence) has ended, reports the cancellation with
\* status 0, and has mutated nothing: no backup reference, no mapping file, no
\* oracle call, the history unchanged.
C19_DeclineIsNoOp ==
    (\E a \in answers :
        a.question \in {"future", "parent", "divergence"} /\ ~a.answer) =>
        /\ pc = "done"
        /\ message = "Operation cancelled"
        /\ exit_code = 0
        /\ no_mutation

C19_Witness ==
    /\ pc = "done"
    /\ asked("future", TRUE) \in answers
    /\ asked("parent", FALSE) \in answers
    /\ message = "Operation cancelled"
    /\ no_mutation

\* C20: in a rewrite run of package main that does not suppress the backup
\* and whose backup reference could not be created (no branch was added), the
\* failure is the last thing reported when the rewrite oracle is about to be
\* called, and the oracle has been invoked, once, by the time the run is past
\* that call.
C20_BackupFailureProceeds ==
    (entry = "package" /\ ~args.revert /\ ~args.no_backup
        /\ pc \notin {"idle", "plan", "backup"}
        /\ branches = run_start.branches) =>
        /\ pc = "oracle" =>
              /\ message = "Failed to create backup branch. Continuing..."
              /\ oracle_calls = 0
        /\ pc # "oracle" => oracle_calls = 1

C20_Witness ==
    /\ pc = "done"
    /\ entry = "package"
    /\ ~args.no_backup
    /\ branches = run_start.branches
    /\ oracle_calls = 1
    /\ message = "Success"
    /\ history # run_start.head

\* C21: a revert on a reflog without a rewrite entry ends with the "no prior
\* operation" failure and has changed nothing: no backup reference, nothing
\* stashed, HEAD and the work tree as they were.
C21_RevertWithoutRewrite ==
    (args.revert /\ pc \notin {"idle", "revert"}
        /\ \A i \in 1 .. Len(reflog) : reflog[i].msg # "filter-branch: rewrite") =>
        /\ pc = "done"
        /\ message = "No 'filter-branch' operation found"
        /\ branches = run_start.branches
        /\ stash = run_start.stash
        /\ dirty = run_start.dirty
        /\ history = run_start.head
        /\ target_ref = None

C21_Witness ==
    /\ pc = "done"
    /\ args.revert
    /\ ~args.no_backup
    /\ run_start.dirty
    /\ rewrite_lines = {}
    /\ message = "No 'filter-branch' operation found"
    /\ branches = {}

\* C22: --last n with n at least the number of commits of the history (and
\* no --unpushed) selects every commit, oldest first, with no anchor, warns
\* about the missing commit HEAD~n, and goes on to the dates.
C22_LastBeyondHistoryWarns ==
    (pc = "dates" /\ ~args.unpushed /\ args.last # 0 /\ args.last >= Len(history)) =>
        /\ commits = [i \in 1 .. Len(history) |-> i]
        /\ revision_range_start = None
        /\ exit_code = Running
        /\ message # ""

\* C23: a run whose git filter-branch failed has invoked it exactly once and
\* has rolled nothing back: HEAD is the one the oracle was given, every
\* reference of the start of the run is still there, and a reference made by
\* the run points at the HEAD of before the rewrite.
C23_OracleFailureNoRetry ==
    (~args.revert /\ message = "Error running git filter-branch") =>
        /\ oracle_calls = 1
        /\ history = run_start.head
        /\ run_start.branches \subseteq branches
        /\ \A b \in branches \ run_start.branches : b.head = run_start.head

C23_Witness ==
    /\ pc = "done"
    /\ ~args.revert
    /\ message = "Error running git filter-branch"
    /\ ~dirty
    /\ range_valid(args.last)
    /\ mapping # << >>
    /\ oracle_calls = 1
    /\ history = run_start.head

\* C24: every backup a revert makes is a new reference: a revert without
\* --no-backup that found a rewrite entry has added a reference, of a name no
\* reference of the start of the run has, at the HEAD it started from.
C24_BackupNamesDistinct ==
    (args.revert /\ ~args.no_backup /\ target_ref # None) =>
        \E b \in branches :
            /\ b.head = run_start.head
            /\ \A old \in run_start.branches : old.name # b.name

\* C25: when the hard reset runs, the target computed at the start of the
\* revert is still the reflog entry just below the most recent rewrite entry,
\* whatever the backup and the stash push have added to the reflog.
C25_TargetStillBeforeRewrite ==
    pc = "revert_reset" =>
        \E i \in 1 .. Len(reflog) :
            /\ reflog[i].msg = "filter-branch: rewrite"
            /\ \A j \in 1 .. i - 1 : reflog[j].msg # "filter-branch: rewrite"
            /\ target_ref = i

\* C26: a revert that succeeded has left the stash as it found it: it popped
\* nothing but the entry it pushed itself.
C26_RevertKeepsUserStash ==
    (pc = "done" /\ args.revert /\ message = "Reverted") => stash = run_start.stash

\* C27: a revert that failed at git reset --hard has left the work tree and
\* the stash as it found them.
C27_FailedRevertRestoresChanges ==
    (pc = "done" /\ args.revert /\ message = "Git command failed") =>
        /\ stash = run_start.stash
        /\ dirty = run_start.dirty

\* C28: a revert with a clean work tree that succeeded has left HEAD at the
\* snapshot the most recent rewrite entry of the reflog started from, and when
\* the run before it was such a revert too, HEAD has not moved: neither back
\* to the rewritten state nor further back.
C28_RevertIdempotent ==
    (pc = "done" /\ args.revert /\ message = "Reverted" /\ ~run_start.dirty) =>
        /\ \E i \in 1 .. Len(reflog) :
                /\ reflog[i].msg = "filter-branch: rewrite"
                /\ \A j \in 1 .. i - 1 : reflog[j].msg # "filter-branch: rewrite"
                /\ history = reflog[i].old
                /\ history # reflog[i].head
        /\ (prev.op = "revert" /\ prev.message = "Reverted" /\ ~prev.dirty) =>
              history = run_start.head

C28_Witness ==
    /\ pc = "done"
    /\ args.revert
    /\ message = "Reverted"
    /\ prev.op = "revert"
    /\ prev.message = "Reverted"
    /\ ~prev.dirty
    /\ ~run_start.dirty
    /\ stash = << >>
    /\ Len(reflog) >= 3
    /\ reflog[1].msg = "reset: moving to"
    /\ reflog[2].msg = "reset: moving to"
    /\ reflog[3].msg = "filter-branch: rewrite"
    /\ history = run_start.head
    /\ history # reflog[3].head

\* C29: when a run is about to call git filter-branch, the revision range it
\* passes resolves and holds every commit of the mapping, whatever the
\* selection flags and counts were.
C29_MappingInsideRange ==
    pc = "oracle" =>
        /\ range_valid(args.last)
        /\ DOMAIN mapping \subseteq range_commits(args.last)

\* C30: in a rewrite run without --start whose selection has an anchor, the
\* start derived from the anchor is on a Monday..Friday and on a calendar day
\* later than the anchor's, and every instant drawn and every instant the plan
\* assigns is later than the anchor's timestamp.
C30_DerivedStartAfterAnchor ==
    (~args.revert /\ args.start = None /\ revision_range_start # None
        /\ start_date # None) =>
        LET anchor == run_start.head[revision_range_start]
        IN  /\ weekday(start_date) < 5
            /\ start_date \div DaySeconds > anchor \div DaySeconds
            /\ \A j \in 1 .. Len(timestamps) : timestamps[j] > anchor
            /\ \A c \in DOMAIN mapping : git_date(mapping[c]) > anchor

C30_Witness ==
    /\ pc = "done"
    /\ message = "Success"
    /\ args.start = None
    /\ args.last = 1
    /\ revision_range_start = 1
    /\ weekday(run_start.head[1]) = 5
    /\ weekday(start_date) = 0
    /\ history[2] = git_date(mapping[2])
    /\ history[2] > history[1]
    /\ run_start.head[2] # history[2]

====
